---- MODULE Spec2Model ----
(***************************************************************************)
(* The Atomic Blog: the post list + search filter state machine of the     *)
(* three variants of the application,                                      *)
(*   "ctx"  : src/src/PostContext.js  (PostProvider, the shared context),  *)
(*   "v1"   : src/src/App-v1.js       (App with an inline context),        *)
(*   "memo" : src/unnamed/part_000    (prop drilling, useMemo, useCallback *)
(*                                     and a memo-wrapped Archive),        *)
(* run side by side on the same user events.  A text is a sequence of      *)
(* one-character strings.  One action is one user event: the handler, the  *)
(* re-render React performs for the state it set, and the effects of that  *)
(* render.                                                                 *)
(***************************************************************************)
EXTENDS Naturals, Sequences, FiniteSets, TLC

\* ------------------------------------------------------------------ bounds
\* Number of posts the store is seeded with (30 in the program, scaled down).
SeedLen == 2
\* Number of posts the archive is seeded with (10000 in the program, scaled down).
ArchiveLen == 2
\* Posts are added only while the list is shorter than this.
MaxPosts == 3

\* ------------------------------------------------------------------- texts
Variants == {"ctx", "v1", "memo"}
\* The variants that hold the whole application (button, form, archive).
AppVariants == {"v1", "memo"}

UpperChars == <<"A","B","C","D","E","F","G","H","I","J","K","L","M",
                "N","O","P","Q","R","S","T","U","V","W","X","Y","Z">>
LowerChars == <<"a","b","c","d","e","f","g","h","i","j","k","l","m",
                "n","o","p","q","r","s","t","u","v","w","x","y","z">>

\* String.prototype.toLowerCase on one character (a table over the alphabet of
\* the model: the letters and the space), then on a text.
toLowerChar ==
    [c \in {UpperChars[i] : i \in DOMAIN UpperChars}
            \cup {LowerChars[i] : i \in DOMAIN LowerChars} \cup {" "} |->
        IF \E i \in DOMAIN UpperChars : UpperChars[i] = c
        THEN LowerChars[CHOOSE i \in DOMAIN UpperChars : UpperChars[i] = c]
        ELSE c]

toLowerCase(s) == [i \in 1..Len(s) |-> toLowerChar[s[i]]]

\* String.prototype.includes: q occurs in s at some offset (always, when q is empty).
includes(s, q) ==
    \E k \in 0..Len(s) :
        k + Len(q) <= Len(s) /\ \A j \in 1..Len(q) : s[k + j] = q[j]

\* Outputs of faker.hacker: createRandomPost draws the k-th post of a stream.
GenPool ==
    << [title |-> <<"R","e","d"," ","B","u","s">>, body |-> <<"G","o">>],
       [title |-> <<"r","a","w"," ","b","i","t">>, body |-> <<"U","p">>] >>

\* The states a stream of generated posts can start in.
Seeds == 0..(Len(GenPool) - 1)

createRandomPost(k) == GenPool[(k % Len(GenPool)) + 1]

\* Array.from({ length: n }, () => createRandomPost()), the stream being at k.
ArrayFrom(n, k) == [i \in 1..n |-> createRandomPost(k + i - 1)]

\* What the user can type into the search box, the title input and the body textarea.
Queries ==
    { <<>>,
      <<"d","g","e"," ","c","a","s">>,
      <<"g","e","c","a","s">>,
      <<"B">> }
FormTitles == { <<>>, <<"E","d","g","e">> }
FormBodies == { <<>>, <<"C","a","s","e">> }

\* ------------------------------------------------------------------- state
VARIABLES
    posts,             \* [Variants    -> the posts state]
    searchQuery,       \* [Variants    -> the searchQuery state]
    searchedPosts,     \* [Variants    -> the derived posts handed to the consumers]
    isFakeDark,        \* [AppVariants -> the isFakeDark state]
    darkClass,         \* [AppVariants -> documentElement has class fake-dark-mode]
    title,             \* [AppVariants -> FormAddPost's title state]
    body,              \* [AppVariants -> FormAddPost's body state]
    archive,           \* [AppVariants -> Archive's posts state]
    showArchive,       \* [AppVariants -> Archive's showArchive state]
    cbPosts,           \* memo: the posts in scope of the memoized handleAddPost
    archiveOptions,    \* memo: the value cached by useMemo
    archiveOptionsDeps,\* memo: posts.length when the cached value was computed
    archiveOptionsRef, \* memo: identity of the cached object (flips per computation)
    archiveRendered    \* memo: what Archive last rendered: [ref, title]

vars == << posts, searchQuery, searchedPosts, isFakeDark, darkClass,
           title, body, archive, showArchive, cbPosts, archiveOptions,
           archiveOptionsDeps, archiveOptionsRef, archiveRendered >>

\* ---------------------------------------------------- PostContext.js ("ctx")
\* A post matches when title + " " + body, lower-cased, includes the lower-cased query.
searchedPosts_PostContext(ps, q) ==
    IF Len(q) > 0
    THEN SelectSeq(ps, LAMBDA post :
             includes(toLowerCase(post.title \o <<" ">> \o post.body), toLowerCase(q)))
    ELSE ps

\* setPosts((posts) => [post, ...posts]) applied to the current posts state ps.
handleAddPost_PostContext(post, ps) == <<post>> \o ps

\* setPosts([]) with the current posts state ps.
handleClearPosts_PostContext(ps) == << >>

\* The setSearchQuery of useState, handed to the consumers as it is.
setSearchQuery_PostContext(value) == value

\* ----------------------------------------------------------- App-v1.js ("v1")
\* (searchedPosts joining title and body without the space.)
searchedPosts_v1_nospace(ps, q) ==
    IF Len(q) > 0
    THEN SelectSeq(ps, LAMBDA post :
             includes(toLowerCase(post.title \o post.body), toLowerCase(q)))
    ELSE ps

\* The derived posts of App-v1.js.
searchedPosts_v1(ps, q) ==
    IF Len(q) > 0
    THEN SelectSeq(ps, LAMBDA post :
             includes(toLowerCase(post.title \o <<" ">> \o post.body), toLowerCase(q)))
    ELSE ps

\* (handleAddPost with the updater (posts) => [...posts, post].)
handleAddPost_v1_append(post, ps) == ps \o <<post>>

\* setPosts((posts) => [post, ...posts])
handleAddPost_v1(post, ps) == <<post>> \o ps

\* (handleClearPosts removing the newest post only.)
handleClearPosts_v1_dropFirst(ps) == SubSeq(ps, 2, Len(ps))

\* setPosts([])
handleClearPosts_v1(ps) == << >>

\* (onChange storing the typed text lower-cased.)
SearchPosts_onChange_v1_lower(value) == toLowerCase(value)

\* onChange={(e) => setSearchQuery(e.target.value)}
SearchPosts_onChange_v1(value) == value

\* classList.toggle("fake-dark-mode")
classList_toggle(cls) == ~cls

\* useEffect(toggle, [isFakeDark]): the effect runs after the first render and
\* after every render in which isFakeDark differs from the render before.  (App is
\* taken as rendered once at the root: a development React.StrictMode, which runs
\* the effects of the first render twice, is no part of these files.)
useEffect_v1(mount, prevDark, dark, cls) ==
    IF mount \/ prevDark # dark THEN classList_toggle(cls) ELSE cls

\* (handleSubmit without the early return.)
handleSubmit_v1_novalidate(t, b) ==
    [calls |-> << [title |-> t, body |-> b] >>, title |-> << >>, body |-> << >>]

\* FormAddPost.handleSubmit: the posts it passes to onAddPost, and the form state
\* it leaves.  !body and !title are true of the empty string.
handleSubmit_v1(t, b) ==
    IF Len(b) = 0 \/ Len(t) = 0
    THEN [calls |-> << >>, title |-> t, body |-> b]
    ELSE [calls |-> << [title |-> t, body |-> b] >>, title |-> << >>, body |-> << >>]

\* (The archive as a plain variable, created anew by every render.)
Archive_posts_v1_regenerate(mount, cur, fresh) == fresh

\* const [posts] = useState(() => Array.from(...)): the initializer's value is
\* taken on the first render only; fresh is what the initializer would yield.
Archive_posts_v1(mount, cur, fresh) == IF mount THEN fresh ELSE cur

\* setShowArchive((s) => !s)
setShowArchive_v1(s) == ~s

\* setIsFakeDark((isFakeDark) => !isFakeDark)
setIsFakeDark_v1(d) == ~d

\* ------------------------------------------------- unnamed/part_000 ("memo")
searchedPosts_memo(ps, q) ==
    IF Len(q) > 0
    THEN SelectSeq(ps, LAMBDA post :
             includes(toLowerCase(post.title \o <<" ">> \o post.body), toLowerCase(q)))
    ELSE ps

\* useCallback(fn, []): the function of the first render is kept, and with it the
\* posts that were in scope when it was created.
useCallback_handleAddPost(mount, cached, scopePosts) ==
    IF mount THEN scopePosts ELSE cached

\* (The memoized handler with setPosts([post, ...posts]): the posts of its closure.)
handleAddPost_memo_stale(post, ps, closurePosts) == <<post>> \o closurePosts

\* The memoized handler: the updater is applied to the current posts state ps,
\* not to the posts of its closure.
handleAddPost_memo(post, ps, closurePosts) == <<post>> \o ps

handleClearPosts_memo(ps) == << >>

SearchPosts_onChange_memo(value) == value

useEffect_memo(mount, prevDark, dark, cls) ==
    IF mount \/ prevDark # dark THEN classList_toggle(cls) ELSE cls

handleSubmit_memo(t, b) ==
    IF Len(b) = 0 \/ Len(t) = 0
    THEN [calls |-> << >>, title |-> t, body |-> b]
    ELSE [calls |-> << [title |-> t, body |-> b] >>, title |-> << >>, body |-> << >>]

Archive_posts_memo(mount, cur, fresh) == IF mount THEN fresh ELSE cur

setShowArchive_memo(s) == ~s

setIsFakeDark_memo(d) == ~d

\* The callback of useMemo: { show: false, title: `... ${posts.length} main posts` }.
archiveOptions_compute(n) ==
    [show |-> FALSE,
     title |-> << "Post archive in addition to ", ToString(n), " main posts" >>]

\* (useMemo with the empty dependency array: computed by the first render only.)
archiveOptions_useMemo_once(mount, cache, n) ==
    IF mount
    THEN [value |-> archiveOptions_compute(n), deps |-> n, ref |-> ~cache.ref]
    ELSE cache

\* useMemo(..., [posts.length]): the cached [value, deps, ref] is kept unless
\* posts.length differs from the one it was computed for; a computation yields
\* a new object (ref flips).
archiveOptions_useMemo(mount, cache, n) ==
    IF mount \/ cache.deps # n
    THEN [value |-> archiveOptions_compute(n), deps |-> n, ref |-> ~cache.ref]
    ELSE cache

\* (memo with a comparison that finds the props always equal.)
Archive_memo_renders_ownState(mount, rendered, stateSet, optsRef) ==
    mount \/ stateSet

\* memo(Archive): Archive renders on mount, when it set its own state, and when
\* a prop differs from the last render's (onAddPost and setIsFakeDark never do).
Archive_memo_renders(mount, rendered, stateSet, optsRef) ==
    mount \/ stateSet \/ rendered.ref # optsRef

\* <h2>{archiveOptions.title}</h2> of the object passed as a prop.
Archive_memo_render(optsRef, opts) == [ref |-> optsRef, title |-> opts.title]

\* --------------------------------------------------- the variants side by side
\* The derived posts a variant computes while rendering.
Searched(v, ps, q) ==
    CASE v = "ctx"  -> searchedPosts_PostContext(ps, q)
      [] v = "v1"   -> searchedPosts_v1(ps, q)
      [] v = "memo" -> searchedPosts_memo(ps, q)

\* onAddPost(post) in variant v; the consumers of PostContext.js make the calls
\* the components of App-v1.js make.
AddPost(v, post, ps) ==
    CASE v = "ctx"  -> handleAddPost_PostContext(post, ps)
      [] v = "v1"   -> handleAddPost_v1(post, ps)
      [] v = "memo" -> handleAddPost_memo(post, ps, cbPosts)

\* The onAddPost calls of one handler run, applied in order.
RECURSIVE AddPosts(_, _, _)
AddPosts(v, calls, ps) ==
    IF calls = << >> THEN ps
    ELSE AddPosts(v, Tail(calls), AddPost(v, Head(calls), ps))

ClearedPosts(v, ps) ==
    CASE v = "ctx"  -> handleClearPosts_PostContext(ps)
      [] v = "v1"   -> handleClearPosts_v1(ps)
      [] v = "memo" -> handleClearPosts_memo(ps)

TypedQuery(v, value) ==
    CASE v = "ctx"  -> setSearchQuery_PostContext(value)
      [] v = "v1"   -> SearchPosts_onChange_v1(value)
      [] v = "memo" -> SearchPosts_onChange_memo(value)

Submitted(v, t, b) ==
    IF v = "memo" THEN handleSubmit_memo(t, b) ELSE handleSubmit_v1(t, b)

Effect(v, mount, prevDark, dark, cls) ==
    IF v = "memo" THEN useEffect_memo(mount, prevDark, dark, cls)
    ELSE useEffect_v1(mount, prevDark, dark, cls)

ArchivePosts(v, mount, cur, fresh) ==
    IF v = "memo" THEN Archive_posts_memo(mount, cur, fresh)
    ELSE Archive_posts_v1(mount, cur, fresh)

\* The useMemo cache of the memo variant, as one record.
Cache == [value |-> archiveOptions, deps |-> archiveOptionsDeps, ref |-> archiveOptionsRef]

\* ------------------------------------------------------------- first render
\* The first render of every variant and the effects after it; the stream of
\* generated posts is at k when App's initializer runs, and Archive's runs next.
\* In a later render k ranges over Seeds: what an initializer would yield then.
Mount(k) ==
    /\ posts = [v \in Variants |-> ArrayFrom(SeedLen, k)]
    /\ searchQuery = [v \in Variants |-> << >>]
    /\ searchedPosts = [v \in Variants |-> Searched(v, posts[v], searchQuery[v])]
    /\ isFakeDark = [v \in AppVariants |-> FALSE]
    /\ darkClass = [v \in AppVariants |-> Effect(v, TRUE, FALSE, FALSE, FALSE)]
    /\ title = [v \in AppVariants |-> << >>]
    /\ body = [v \in AppVariants |-> << >>]
    /\ archive = [v \in AppVariants |->
                    ArchivePosts(v, TRUE, << >>, ArrayFrom(ArchiveLen, k + SeedLen))]
    /\ cbPosts = useCallback_handleAddPost(TRUE, << >>, posts["memo"])
    /\ LET c == archiveOptions_useMemo(TRUE,
                    [value |-> archiveOptions_compute(0), deps |-> 0, ref |-> FALSE],
                    Len(posts["memo"]))
       IN  /\ archiveOptions = c.value
           /\ archiveOptionsDeps = c.deps
           /\ archiveOptionsRef = c.ref
           /\ archiveRendered = Archive_memo_render(c.ref, c.value)
           /\ showArchive = [v \in AppVariants |-> IF v = "memo" THEN c.value.show ELSE FALSE]

Init == \E k \in Seeds : Mount(k)

\* ---------------------------------------------------------------- re-renders
\* App (or PostProvider) renders again from the state just set (the primed
\* posts, searchQuery, isFakeDark), its children render, and the effects run.
\* In v1 Archive reads the context and renders with App; in memo it renders
\* only when memo() finds a changed prop.
RenderApp ==
    /\ searchedPosts' = [v \in Variants |-> Searched(v, posts'[v], searchQuery'[v])]
    /\ darkClass' = [v \in AppVariants |->
                       Effect(v, FALSE, isFakeDark[v], isFakeDark'[v], darkClass[v])]
    /\ cbPosts' = useCallback_handleAddPost(FALSE, cbPosts, posts'["memo"])
    /\ LET c == archiveOptions_useMemo(FALSE, Cache, Len(posts'["memo"]))
           renders == Archive_memo_renders(FALSE, archiveRendered, FALSE, c.ref)
       IN  /\ archiveOptions' = c.value
           /\ archiveOptionsDeps' = c.deps
           /\ archiveOptionsRef' = c.ref
           /\ archiveRendered' =
                 IF renders THEN Archive_memo_render(c.ref, c.value) ELSE archiveRendered
           /\ archive' \in { [v \in AppVariants |->
                    IF v = "memo" /\ ~renders THEN archive[v]
                    ELSE ArchivePosts(v, FALSE, archive[v], ArrayFrom(ArchiveLen, k))]
                                : k \in Seeds }

\* Archive alone renders again, having set its own state.
RenderArchive ==
    /\ archiveRendered' =
          IF Archive_memo_renders(FALSE, archiveRendered, TRUE, archiveOptionsRef)
          THEN Archive_memo_render(archiveOptionsRef, archiveOptions)
          ELSE archiveRendered
    /\ archive' \in { [v \in AppVariants |->
                          ArchivePosts(v, FALSE, archive[v], ArrayFrom(ArchiveLen, k))]
                      : k \in Seeds }

\* ------------------------------------------------------------- user events
\* The user changes the search box to q (a change event: q is not what it shows).
TypeSearch(q) ==
    /\ ~(\A v \in Variants : q = searchQuery[v])
    /\ searchQuery' = [v \in Variants |-> TypedQuery(v, q)]
    /\ UNCHANGED << posts, isFakeDark, title, body, showArchive >>
    /\ RenderApp

\* The user clicks "Clear posts".
ClearPosts ==
    /\ posts' = [v \in Variants |-> ClearedPosts(v, posts[v])]
    /\ UNCHANGED << searchQuery, isFakeDark, title, body, showArchive >>
    /\ RenderApp

\* The user changes the title input of the form to t: only the form renders.
TypeTitle(t) ==
    /\ ~(\A v \in AppVariants : t = title[v])
    /\ title' = [v \in AppVariants |-> t]
    /\ UNCHANGED << posts, searchQuery, searchedPosts, isFakeDark, darkClass,
                    body, archive, showArchive, cbPosts, archiveOptions,
                    archiveOptionsDeps, archiveOptionsRef, archiveRendered >>

\* The user changes the body textarea of the form to b: only the form renders.
TypeBody(b) ==
    /\ ~(\A v \in AppVariants : b = body[v])
    /\ body' = [v \in AppVariants |-> b]
    /\ UNCHANGED << posts, searchQuery, searchedPosts, isFakeDark, darkClass,
                    title, archive, showArchive, cbPosts, archiveOptions,
                    archiveOptionsDeps, archiveOptionsRef, archiveRendered >>

\* The user submits the form.  A handler that returns early sets no state, so
\* nothing renders.
SubmitForm ==
    LET r == [v \in AppVariants |-> Submitted(v, title[v], body[v])]
        calls == [v \in Variants |-> IF v = "ctx" THEN r["v1"].calls ELSE r[v].calls]
    IN  /\ \A v \in Variants : calls[v] # << >> => Len(posts[v]) < MaxPosts
        /\ posts' = [v \in Variants |-> AddPosts(v, calls[v], posts[v])]
        /\ title' = [v \in AppVariants |-> r[v].title]
        /\ body' = [v \in AppVariants |-> r[v].body]
        /\ UNCHANGED << searchQuery, isFakeDark, showArchive >>
        /\ IF \A v \in Variants : calls[v] = << >>
           THEN UNCHANGED << searchedPosts, darkClass, archive, cbPosts, archiveOptions,
                             archiveOptionsDeps, archiveOptionsRef, archiveRendered >>
           ELSE RenderApp

\* The user clicks "Show archive posts" / "Hide archive posts".
ToggleArchive ==
    /\ showArchive' = [v \in AppVariants |->
                         IF v = "memo" THEN setShowArchive_memo(showArchive[v])
                         ELSE setShowArchive_v1(showArchive[v])]
    /\ UNCHANGED << posts, searchQuery, searchedPosts, isFakeDark, darkClass,
                    title, body, cbPosts, archiveOptions, archiveOptionsDeps,
                    archiveOptionsRef >>
    /\ RenderArchive

\* The user clicks "Add as new post" on the i-th entry of the shown archive.
ArchiveAdd(i) ==
    /\ \A v \in AppVariants : showArchive[v] /\ i \in 1..Len(archive[v])
    /\ \A v \in Variants : Len(posts[v]) < MaxPosts
    /\ posts' = [v \in Variants |->
                   AddPost(v, IF v = "ctx" THEN archive["v1"][i] ELSE archive[v][i], posts[v])]
    /\ UNCHANGED << searchQuery, isFakeDark, title, body, showArchive >>
    /\ RenderApp

\* The user clicks the dark-mode button.
ToggleDark ==
    /\ isFakeDark' = [v \in AppVariants |->
                        IF v = "memo" THEN setIsFakeDark_memo(isFakeDark[v])
                        ELSE setIsFakeDark_v1(isFakeDark[v])]
    /\ UNCHANGED << posts, searchQuery, title, body, showArchive >>
    /\ RenderApp

Next ==
    \/ \E q \in Queries : TypeSearch(q)
    \/ ClearPosts
    \/ \E t \in FormTitles : TypeTitle(t)
    \/ \E b \in FormBodies : TypeBody(b)
    \/ SubmitForm
    \/ ToggleArchive
    \/ \E i \in 1..ArchiveLen : ArchiveAdd(i)
    \/ ToggleDark

Spec == Init /\ [][Next]_vars

\* ------------------------------------------------------------------ claims
EdgeCasePost == [title |-> <<"E","d","g","e">>, body |-> <<"C","a","s","e">>]

\* The posts an action passes to onAddPost of variant v in the current state.
SubmittedPost(v) ==
    IF v = "ctx" THEN [title |-> title["v1"], body |-> body["v1"]]
    ELSE [title |-> title[v], body |-> body[v]]

ArchiveEntry(v, i) == IF v = "ctx" THEN archive["v1"][i] ELSE archive[v][i]

FormIsFilled == \A v \in AppVariants : title[v] # << >> /\ body[v] # << >>

\* posts' is p followed by posts: one longer, p first, the earlier posts behind
\* it with their values and order.
Prepended(v, p) ==
    /\ Len(posts'[v]) = Len(posts[v]) + 1
    /\ posts'[v][1] = p
    /\ \A j \in 1..Len(posts[v]) : posts'[v][j + 1] = posts[v][j]

\* C1: every addPost(p), from the form (through the handler of the context or the
\* once-memoized useCallback handler) or from the archive, on any reachable posts,
\* makes posts equal to p followed by the earlier posts.
C1_AddPostPrepends ==
    [][ /\ \A i \in 1..ArchiveLen :
             ArchiveAdd(i) => \A v \in Variants : Prepended(v, ArchiveEntry(v, i))
        /\ (SubmitForm /\ FormIsFilled) =>
             \A v \in Variants : Prepended(v, SubmittedPost(v)) ]_vars

\* A list that was cleared, then got an archive entry, then a post from the form.
C1_Witness ==
    \A v \in Variants :
        /\ Len(posts[v]) = 2
        /\ posts[v][1] = EdgeCasePost
        /\ posts[v][2] = ArchiveEntry(v, 1)

\* The i-th character of title + " " + body.
TextChar(post, i) ==
    IF i <= Len(post.title) THEN post.title[i]
    ELSE IF i = Len(post.title) + 1 THEN " "
    ELSE post.body[i - Len(post.title) - 1]

\* The same character up to the case of a letter.
SameLetter(a, b) ==
    \/ a = b
    \/ \E i \in DOMAIN UpperChars : {a, b} = {UpperChars[i], LowerChars[i]}

\* q occurs in title + " " + body, case-insensitively.
Matches(post, q) ==
    \E k \in 0..(Len(post.title) + 1 + Len(post.body)) :
        /\ k + Len(q) <= Len(post.title) + 1 + Len(post.body)
        /\ \A j \in 1..Len(q) : SameLetter(TextChar(post, k + j), q[j])

\* The matching posts of ps, in the order they have in ps.
ExpectedVisible(ps, q) ==
    LET Idx == {i \in 1..Len(ps) : Matches(ps[i], q)}
    IN  [k \in 1..Cardinality(Idx) |->
            ps[CHOOSE i \in Idx : Cardinality({j \in Idx : j <= i}) = k]]

InSeq(x, sq) == \E i \in 1..Len(sq) : sq[i] = x

\* C2: in every state the derived posts are exactly the posts whose
\* title + " " + body contains the query case-insensitively, in their order in
\* posts (all of posts for the empty query); "dge cas" finds the post Edge/Case
\* and "gecas" does not.
C2_VisibleIsFilter ==
    \A v \in Variants :
        /\ searchedPosts[v] = ExpectedVisible(posts[v], searchQuery[v])
        /\ searchQuery[v] = << >> => searchedPosts[v] = posts[v]
        /\ InSeq(EdgeCasePost, posts[v]) =>
              /\ searchQuery[v] = <<"d","g","e"," ","c","a","s">> =>
                    InSeq(EdgeCasePost, searchedPosts[v])
              /\ searchQuery[v] = <<"g","e","c","a","s">> =>
                    ~InSeq(EdgeCasePost, searchedPosts[v])

\* The query crossing the space finds Edge/Case among three posts.
C2_Witness ==
    \A v \in Variants :
        /\ searchQuery[v] = <<"d","g","e"," ","c","a","s">>
        /\ Len(posts[v]) = 3
        /\ searchedPosts[v] = << EdgeCasePost >>

\* C3: clearPosts empties posts whatever they were and leaves the query alone;
\* a clearPosts on the result of a clearPosts changes nothing.
C3_ClearIsIdempotent ==
    [][ ClearPosts =>
          \A v \in Variants :
             /\ posts'[v] = << >>
             /\ searchedPosts'[v] = << >>
             /\ searchQuery'[v] = searchQuery[v]
             /\ posts[v] = << >> =>
                   /\ posts'[v] = posts[v]
                   /\ searchedPosts'[v] = searchedPosts[v] ]_vars

\* Cleared, with a query in the box.
C3_Witness ==
    \A v \in Variants :
        /\ posts[v] = << >>
        /\ searchedPosts[v] = << >>
        /\ searchQuery[v] = <<"B">>

\* C4: posts changes only in addPost and clearPosts steps; searchQuery changes
\* only in setSearchQuery steps, which store the typed text verbatim and leave
\* posts alone; the dark-mode button, the archive button and typing in the form
\* leave both alone; and whenever a step ends with the empty query, the derived
\* posts are all of posts in their order.
C4_Frame ==
    [][ /\ posts' # posts =>
             (ClearPosts \/ SubmitForm \/ \E i \in 1..ArchiveLen : ArchiveAdd(i))
        /\ searchQuery' # searchQuery => \E q \in Queries : TypeSearch(q)
        /\ \A q \in Queries :
             TypeSearch(q) =>
                 /\ \A v \in Variants : searchQuery'[v] = q
                 /\ posts' = posts
        /\ ( \/ ToggleDark
             \/ ToggleArchive
             \/ \E t \in FormTitles : TypeTitle(t)
             \/ \E b \in FormBodies : TypeBody(b) ) =>
                 /\ posts' = posts
                 /\ searchQuery' = searchQuery
        /\ \A v \in Variants :
             searchQuery'[v] = << >> => searchedPosts'[v] = posts'[v] ]_vars

\* The query is empty again and every post is shown, after an add, with dark
\* mode on, the archive shown and a title typed.
C4_Witness ==
    /\ \A v \in Variants :
          /\ searchQuery[v] = << >>
          /\ Len(posts[v]) = SeedLen + 1
          /\ searchedPosts[v] = posts[v]
    /\ \A v \in AppVariants :
          isFakeDark[v] /\ showArchive[v] /\ title[v] # << >>

\* C5: a submit with an empty title or an empty body changes neither posts nor
\* the form, so that no step puts a post with an empty title or body into
\* posts; a submit with both filled adds {title, body} once, in front, and
\* empties both fields.
C5_FormValidates ==
    [][ /\ \A v \in Variants : \A i \in 1..Len(posts'[v]) :
             posts'[v][i].title # << >> /\ posts'[v][i].body # << >>
        /\ SubmitForm =>
          \A v \in AppVariants :
             IF title[v] = << >> \/ body[v] = << >>
             THEN /\ posts' = posts
                  /\ title'[v] = title[v]
                  /\ body'[v] = body[v]
             ELSE /\ Prepended(v, [title |-> title[v], body |-> body[v]])
                  /\ Prepended("ctx", [title |-> title[v], body |-> body[v]])
                  /\ title'[v] = << >>
                  /\ body'[v] = << >> ]_vars

\* The form has added its post and is empty again.
C5_Witness ==
    /\ \A v \in Variants : Len(posts[v]) = SeedLen + 1 /\ posts[v][1] = EdgeCasePost
    /\ \A v \in AppVariants : title[v] = << >> /\ body[v] = << >>

C7_ArchiveIsFixed ==
    [][ /\ archive' = archive
        /\ \A v \in AppVariants : Len(archive'[v]) = ArchiveLen ]_vars

\* The list was cleared and holds a copy of the second archive entry, the
\* archive is hidden again, dark mode is on, and the archive is as it was seeded.
C7_Witness ==
    /\ \A v \in Variants : posts[v] = << ArchiveEntry(v, 2) >>
    /\ \A v \in AppVariants :
          /\ ~showArchive[v]
          /\ isFakeDark[v]
          /\ \E k \in Seeds : archive[v] = ArrayFrom(ArchiveLen, k)

\* C8: the three variants, seeded alike and given the same operations, agree on
\* posts, searchQuery and the derived posts in every state.
C8_VariantsAgree ==
    \A v, w \in Variants :
        /\ posts[v] = posts[w]
        /\ searchQuery[v] = searchQuery[w]
        /\ searchedPosts[v] = searchedPosts[w]

\* After a clear and adds through every handler, filtered.
C8_Witness ==
    /\ \A v \in Variants :
          /\ Len(posts[v]) = 3
          /\ posts[v][1] = EdgeCasePost
          /\ posts[v][3] = ArchiveEntry(v, 1)
          /\ searchQuery[v] = <<"d","g","e"," ","c","a","s">>
          /\ searchedPosts[v] = << EdgeCasePost >>
    /\ cbPosts # posts["memo"]

\* The cached archiveOptions and the Archive built from it carry the number of
\* all posts.
ArchiveOptionsFresh ==
    /\ archiveOptions.title[2] = ToString(Len(posts["memo"]))
    /\ archiveOptions.show = FALSE
    /\ archiveOptionsDeps = Len(posts["memo"])
    /\ archiveRendered = [ref |-> archiveOptionsRef, title |-> archiveOptions.title]

C10_DarkClassFollowsState ==
    \A v \in AppVariants : darkClass[v] <=> isFakeDark[v]

====
